---------------------------- MODULE Spec2Model ----------------------------
(***************************************************************************)
(* Model of backend/verify_docs_fastapi.py: the /verify endpoint that      *)
(* reconciles the names and the address read from a deed image and an ID   *)
(* image with a parcel record of the Regrid registry.                      *)
(*                                                                         *)
(* Text is a sequence of one-character strings.  A Python value is a       *)
(* tagged record: Str(s), None, Num(n).  A dict is a function whose        *)
(* DOMAIN is the set of keys that are present.                             *)
(***************************************************************************)
EXTENDS Integers, Sequences, FiniteSets, TLC

VARIABLES
    env,                \* the requests in flight and what each collaborator may answer
    pc,                 \* per request: the stage of verify() it is at
    deed_text,          \* pytesseract's text of the deed image
    id_text,            \* pytesseract's text of the id image
    deed_doc,           \* doc.ents of nlp(deed_text)
    id_doc,             \* doc.ents of nlp(id_text)
    deed_owner_names,   \* extract_owners_with_spacy(deed_text)
    id_owner_names,     \* extract_owners_with_spacy(id_text)
    extracted_address,  \* address_match.group(0), the query sent to the registry
    response,           \* what requests.get returned
    props,              \* features[0].get("properties", {})
    regrid_owner,       \* the owner name used for name matching
    matched_id_name,    \* first id name that matches regrid_owner
    matched_deed_name,  \* first deed name that matches regrid_owner
    deed_address_match, \* len(matched_tokens) >= 3
    result,             \* the JSONResponse returned
    registry_calls,     \* how many times requests.get was called
    stages,             \* the stages executed so far, in order
    call,               \* a direct application of one helper: its name and arguments
    ret                 \* the value that application returned

\* Every variable from pc to stages is a function of the request.
reqvars == <<pc, deed_text, id_text, deed_doc, id_doc, deed_owner_names,
             id_owner_names, extracted_address, response, props, regrid_owner,
             matched_id_name, matched_deed_name, deed_address_match, result,
             registry_calls, stages>>

vars == <<env, reqvars, call, ret>>

---------------------------------------------------------------------------
(* Python values *)

None == [t |-> "None"]
Unset == [t |-> "unset"]
Str(s) == [t |-> "str", v |-> s]
Num(n) == [t |-> "num", v |-> n]

\* bool(x) of a Python value: None, "" and 0 are falsy
Truthy(x) ==
    CASE x.t = "str" -> Len(x.v) > 0
      [] x.t = "num" -> x.v # 0
      [] OTHER -> FALSE

\* dict.get(key, default)
Get(d, key, default) == IF key \in DOMAIN d THEN d[key] ELSE default

---------------------------------------------------------------------------
(* str methods *)

LowerLetters == <<"a","b","c","d","e","f","g","h","i","j","k","l","m",
                  "n","o","p","q","r","s","t","u","v","w","x","y","z">>
UpperLetters == <<"A","B","C","D","E","F","G","H","I","J","K","L","M",
                  "N","O","P","Q","R","S","T","U","V","W","X","Y","Z">>
Digits == {"0","1","2","3","4","5","6","7","8","9"}
Whitespace == {" ", "\t", "\n", "\r"}

Range(s) == {s[i] : i \in DOMAIN s}

upper_char(c) ==
    IF \E i \in 1..26 : LowerLetters[i] = c
    THEN UpperLetters[CHOOSE i \in 1..26 : LowerLetters[i] = c]
    ELSE c

\* s.upper()
upper(s) == [i \in 1..Len(s) |-> upper_char(s[i])]

\* number of leading characters of s, from position i on, that are in set S
RECURSIVE RunLen(_, _, _)
RunLen(s, i, S) ==
    IF i > Len(s) \/ s[i] \notin S THEN 0 ELSE 1 + RunLen(s, i + 1, S)

\* s.strip()
strip(s) ==
    LET lead == RunLen(s, 1, Whitespace)
        RECURSIVE Trail(_)
        Trail(i) == IF i < 1 \/ s[i] \notin Whitespace THEN 0 ELSE 1 + Trail(i - 1)
    IN  IF lead = Len(s) THEN <<>>
        ELSE SubSeq(s, lead + 1, Len(s) - Trail(Len(s)))

\* s.split(): the maximal runs of non-whitespace characters, in order
RECURSIVE split(_)
split(s) ==
    LET lead == RunLen(s, 1, Whitespace)
        rest == SubSeq(s, lead + 1, Len(s))
        RECURSIVE WordLen(_)
        WordLen(i) == IF i > Len(rest) \/ rest[i] \in Whitespace THEN 0
                      ELSE 1 + WordLen(i + 1)
        n == WordLen(1)
    IN  IF Len(rest) = 0 THEN <<>>
        ELSE <<SubSeq(rest, 1, n)>> \o split(SubSeq(rest, n + 1, Len(rest)))

\* sub in s
Contains(sub, s) ==
    \E i \in 0..(Len(s) - Len(sub)) : SubSeq(s, i + 1, i + Len(sub)) = sub

\* whether s has sub at position i (1-based)
HasAt(s, i, sub) ==
    /\ i + Len(sub) - 1 <= Len(s)
    /\ SubSeq(s, i, i + Len(sub) - 1) = sub

---------------------------------------------------------------------------
(* Address Locator: the re.search of verify() *)

\* the alternatives of (?:RD|ST|...|PARKWAY), in the pattern's order
StreetTypes == <<
    <<"R","D">>,
    <<"S","T">>,
    <<"A","V","E">>,
    <<"D","R">>,
    <<"L","N">>,
    <<"B","L","V","D">>,
    <<"R","O","A","D">>,
    <<"L","A","N","E">>,
    <<"C","O","U","R","T">>,
    <<"P","L">>,
    <<"P","L","A","C","E">>,
    <<"T","R","A","I","L">>,
    <<"W","A","Y">>,
    <<"C","I","R">>,
    <<"C","I","R","C","L","E">>,
    <<"P","K","W","Y">>,
    <<"P","A","R","K","W","A","Y">> >>

\* the character class [A-Z0-9\s\-]
AddressChars == Range(UpperLetters) \cup Digits \cup Whitespace \cup {"-"}

Min(a, b) == IF a <= b THEN a ELSE b

\* index of the first alternative of the street-type group that matches at
\* position i of t, 0 when none does
StreetTypeAt(t, i) ==
    LET hits == {j \in 1..Len(StreetTypes) : HasAt(t, i, StreetTypes[j])}
    IN  IF hits = {} THEN 0 ELSE CHOOSE j \in hits : \A h \in hits : j <= h

\* The ways \d{2,6}\s+[A-Z0-9\s\-]+(?:...) matches at position s of t: d
\* digits, w whitespace characters, k class characters, then a street type.
MatchSplits(t, s) ==
    UNION { UNION { { <<d, w, k>> :
                      k \in {k \in 1..RunLen(t, s + d + w, AddressChars) :
                                StreetTypeAt(t, s + d + w + k) # 0} } :
                    w \in 1..RunLen(t, s + d, Whitespace) } :
            d \in 2..Min(6, RunLen(t, s, Digits)) }

\* The quantifiers are greedy and the engine backtracks the last one first:
\* the split tried first has the most digits, then the most whitespace, then
\* the most class characters.
FirstSplit(t, s) ==
    LET S == MatchSplits(t, s)
        Before(a, b) == \/ a[1] > b[1]
                        \/ a[1] = b[1] /\ a[2] > b[2]
                        \/ a[1] = b[1] /\ a[2] = b[2] /\ a[3] >= b[3]
    IN  CHOOSE a \in S : \A b \in S : Before(a, b)

\* the match of the pattern that starts at position s: [start, end], end the
\* position of its last character; None when the pattern does not match there
match_at(t, s) ==
    IF MatchSplits(t, s) = {} THEN None
    ELSE LET a == FirstSplit(t, s)
             p == s + a[1] + a[2] + a[3]
         IN  [t |-> "match", start |-> s,
              end |-> p + Len(StreetTypes[StreetTypeAt(t, p)]) - 1]

\* re.search(pattern, t): the match at the leftmost position that has one
re_search(t) ==
    LET starts == {s \in 1..Len(t) : match_at(t, s) # None}
    IN  IF starts = {} THEN None
        ELSE match_at(t, CHOOSE s \in starts : \A u \in starts : s <= u)

\* address_match.group(0)
group0(t, m) == SubSeq(t, m.start, m.end)

---------------------------------------------------------------------------
(* Name Matcher: is_name_match and the fuzz.partial_ratio it calls         *)
(* (fuzzywuzzy over difflib.SequenceMatcher)                               *)

\* length of the common run of a from i and b from j, a below ahi, b below bhi
RECURSIVE CommonRun(_, _, _, _, _, _)
CommonRun(a, b, i, j, ahi, bhi) ==
    IF i > ahi \/ j > bhi \/ a[i] # b[j] THEN 0
    ELSE 1 + CommonRun(a, b, i + 1, j + 1, ahi, bhi)

\* SequenceMatcher.find_longest_match on a[alo..ahi], b[blo..bhi]: the longest
\* common block <<i, j, k>>; of the longest, the one that starts earliest in
\* a, and of those the one that starts earliest in b.  k = 0 when none.
find_longest_match(a, b, alo, ahi, blo, bhi) ==
    LET len(i, j) == CommonRun(a, b, i, j, ahi, bhi)
        pairs == (alo..ahi) \X (blo..bhi)
        live == {p \in pairs : a[p[1]] = b[p[2]]}
    IN  IF live = {} THEN <<alo, blo, 0>>
        ELSE LET best == CHOOSE p \in live : \A q \in live :
                            \/ len(p[1], p[2]) > len(q[1], q[2])
                            \/ /\ len(p[1], p[2]) = len(q[1], q[2])
                               /\ \/ p[1] < q[1]
                                  \/ p[1] = q[1] /\ p[2] <= q[2]
             IN  <<best[1], best[2], len(best[1], best[2])>>

\* SequenceMatcher.get_matching_blocks, without the closing (la, lb, 0) block:
\* the longest block, then the blocks to its left and to its right
RECURSIVE matching_blocks(_, _, _, _, _, _)
matching_blocks(a, b, alo, ahi, blo, bhi) ==
    IF alo > ahi \/ blo > bhi THEN <<>>
    ELSE LET m == find_longest_match(a, b, alo, ahi, blo, bhi)
         IN  IF m[3] = 0 THEN <<>>
             ELSE matching_blocks(a, b, alo, m[1] - 1, blo, m[2] - 1)
                  \o <<m>>
                  \o matching_blocks(a, b, m[1] + m[3], ahi, m[2] + m[3], bhi)

RECURSIVE SumSizes(_)
SumSizes(blocks) ==
    IF blocks = <<>> THEN 0 ELSE Head(blocks)[3] + SumSizes(Tail(blocks))

\* SequenceMatcher.ratio as the fraction <<2 * M, T>>
ratio(a, b) ==
    <<2 * SumSizes(matching_blocks(a, b, 1, Len(a), 1, Len(b))), Len(a) + Len(b)>>

\* utils.intr(100 * n / d): int(round(.)), Python rounding halves to even
intr100(n, d) ==
    LET q == (100 * n) \div d
        r == (100 * n) % d
    IN  IF 2 * r > d THEN q + 1
        ELSE IF 2 * r = d THEN q + (q % 2)
        ELSE q

\* fuzz.partial_ratio(s1, s2)
partial_ratio(s1, s2) ==
    IF s1 = s2 THEN 100                          \* @check_for_equivalence
    ELSE IF Len(s1) = 0 \/ Len(s2) = 0 THEN 0     \* @check_empty_string
    ELSE
    LET shorter == IF Len(s1) <= Len(s2) THEN s1 ELSE s2
        longer == IF Len(s1) <= Len(s2) THEN s2 ELSE s1
        blocks == matching_blocks(shorter, longer, 1, Len(shorter), 1, Len(longer))
        \* block[1] - block[0] of every block, the closing one included
        offsets == {blocks[i][2] - blocks[i][1] : i \in DOMAIN blocks}
                   \cup {Len(longer) - Len(shorter)}
        long_substr(o) ==
            LET long_start == IF o > 0 THEN o ELSE 0
            IN  SubSeq(longer, long_start + 1,
                       Min(long_start + Len(shorter), Len(longer)))
        scores == {ratio(shorter, long_substr(o)) : o \in offsets}
        best == CHOOSE x \in scores : \A y \in scores : x[1] * y[2] >= y[1] * x[2]
    IN  IF \E x \in scores : 1000 * x[1] > 995 * x[2] THEN 100
        ELSE intr100(best[1], best[2])

\* ''.join([part[0] for part in name.split()])
initials(name) ==
    LET parts == split(name) IN [i \in 1..Len(parts) |-> parts[i][1]]

DefaultThreshold == 70

\* a variant whose initials tier ignores the order of the words
is_name_match_any_order(ocr_name, regrid_name, threshold) ==
    IF ~Truthy(ocr_name) \/ ~Truthy(regrid_name) THEN FALSE
    ELSE LET o == upper(strip(ocr_name.v))
             g == upper(strip(regrid_name.v))
         IN  IF partial_ratio(o, g) >= threshold THEN TRUE
             ELSE Range(initials(o)) = Range(initials(g))

\* is_name_match(ocr_name, regrid_name, threshold); both arguments are
\* Python values that are None or a str
is_name_match(ocr_name, regrid_name, threshold) ==
    IF ~Truthy(ocr_name) \/ ~Truthy(regrid_name) THEN FALSE
    ELSE LET o == upper(strip(ocr_name.v))
             g == upper(strip(regrid_name.v))
             fuzzy_score == partial_ratio(o, g)
         IN  IF fuzzy_score >= threshold THEN TRUE
             ELSE initials(o) = initials(g)

---------------------------------------------------------------------------
(* Helpers of verify() *)

\* A collaborator that raises: str(e) is msg
Raise(msg) == [t |-> "raise", msg |-> msg]

\* a variant that collects the names in a list shared by all requests
extract_owners_shared(ents) ==
    LET keep(ent) == ent.label_ = "PERSON" /\ Len(split(ent.text)) >= 2
        kept == SelectSeq(ents, keep)
    IN  deed_owner_names["r1"] \o deed_owner_names["r2"]
        \o [i \in 1..Len(kept) |-> upper(kept[i].text)]

\* extract_owners_with_spacy, from doc.ents on: ents is the sequence of
\* entities [text, label_] that nlp(text) found
extract_owners_with_spacy(ents) ==
    LET keep(ent) == ent.label_ = "PERSON" /\ Len(split(ent.text)) >= 2
        kept == SelectSeq(ents, keep)
    IN  [i \in 1..Len(kept) |-> upper(kept[i].text)]

\* a variant that reads the last feature
last_properties(features) == Get(features[Len(features)], "properties", <<>>)

\* features[0].get("properties", {})
first_properties(features) == Get(features[1], "properties", <<>>)

\* regrid_owner = enhanced[0].get("eo_owner") if enhanced and "eo_owner" in
\* enhanced[0] else fields.get("owner", "")
owner_of(properties) ==
    LET fields == Get(properties, "fields", <<>>)
        enhanced == Get(properties, "enhanced_ownership", <<>>)
    IN  IF Len(enhanced) > 0 /\ "eo_owner" \in DOMAIN enhanced[1]
        THEN enhanced[1]["eo_owner"]
        ELSE Get(fields, "owner", Str(<<>>))

\* str() of a natural number
RECURSIVE str_of_nat(_)
str_of_nat(n) ==
    LET digit == <<"0","1","2","3","4","5","6","7","8","9">>[(n % 10) + 1]
    IN  IF n < 10 THEN <<digit>> ELSE str_of_nat(n \div 10) \o <<digit>>

\* how an f-string renders a value
format(x) ==
    CASE x.t = "str" -> x.v
      [] x.t = "num" -> str_of_nat(x.v)
      [] OTHER -> <<"N","o","n","e">>

\* f"{fields.get('address', '')}, {fields.get('scity', '')}, {fields.get('szip', '')}"
regrid_address_of(fields) ==
    format(Get(fields, "address", Str(<<>>))) \o <<",", " ">>
    \o format(Get(fields, "scity", Str(<<>>))) \o <<",", " ">>
    \o format(Get(fields, "szip", Str(<<>>)))

\* a variant that keeps the last entry that matches
RECURSIVE matched_name_last(_, _)
matched_name_last(names, owner) ==
    IF names = <<>> THEN None
    ELSE IF is_name_match(Str(names[Len(names)]), owner, DefaultThreshold)
         THEN Str(names[Len(names)])
         ELSE matched_name_last(SubSeq(names, 1, Len(names) - 1), owner)

\* next((name for name in names if is_name_match(name, owner)), None)
RECURSIVE matched_name(_, _)
matched_name(names, owner) ==
    IF names = <<>> THEN None
    ELSE IF is_name_match(Str(Head(names)), owner, DefaultThreshold)
         THEN Str(Head(names))
         ELSE matched_name(Tail(names), owner)

\* is_name_match raises AttributeError when a truthy owner has no .strip()
name_match_raises(names, owner) ==
    names # <<>> /\ Truthy(owner) /\ owner.t # "str"

\* the five registry tokens, in the order of the list literal
address_tokens(fields) ==
    << Get(fields, "saddno", Str(<<>>)),
       Get(fields, "saddstr", Str(<<>>)),
       Get(fields, "saddsttyp", Str(<<>>)),
       Get(fields, "scity", Str(<<>>)),
       Get(fields, "szip5", Str(<<>>)) >>

\* [token for token in address_tokens if token and token.upper() in deed_text_upper]
matched_tokens(tokens, deed_text_upper) ==
    LET present(token) == Truthy(token) /\ Contains(upper(token.v), deed_text_upper)
    IN  SelectSeq(tokens, present)

\* token.upper() raises AttributeError for a truthy token that is no str
reconcile_raises(tokens) ==
    \E i \in DOMAIN tokens : Truthy(tokens[i]) /\ tokens[i].t # "str"

MinMatchedTokens == 3

\* a variant that wants more than three tokens
address_matches_strict(tokens, deed_text_upper) ==
    Len(matched_tokens(tokens, deed_text_upper)) > MinMatchedTokens

\* deed_address_match = len(matched_tokens) >= 3
address_matches(tokens, deed_text_upper) ==
    Len(matched_tokens(tokens, deed_text_upper)) >= MinMatchedTokens

\* a variant that wants both names
match_result_both(address_ok, deed_name, id_name) ==
    address_ok /\ (deed_name # None) /\ (id_name # None)

\* match_result = deed_address_match and (deed name found or id name found)
match_result_of(address_ok, deed_name, id_name) ==
    address_ok /\ ((deed_name # None) \/ (id_name # None))

\* the valuation dict of the response
valuation_of(fields) ==
    [total_value |-> Get(fields, "parval", Num(0)),
     land_value |-> Get(fields, "landval", Num(0)),
     improvement_value |-> Get(fields, "improvval", Num(0))]

---------------------------------------------------------------------------
(* The inputs: what pytesseract, spaCy and the registry may answer *)

Requests == {"r1", "r2"}

\* deed texts: all five tokens of parcel A; no address at all; two tokens of
\* parcel A (12, RIO); exactly three tokens of parcel A (12, OAK, ST)
DeedFull == Str(<<"D","e","e","d",":"," ","A","l"," ","P","o",","," ","1","2"," ","O","a","k"," ","S","t",","," ","R","i","o"," ","7","5","2","0","1">>)
DeedNoAddress == Str(<<"S","a","l","e"," ","c","o","m","p","l","e","t","e","d",".">>)
DeedTwoTokens == Str(<<"L","o","t"," ","a","t"," ","1","2"," ","E","l","m"," ","R","d",","," ","R","i","o">>)
DeedThreeTokens == Str(<<"1","2"," ","O","a","k"," ","S","t",","," ","D","a","l","l","a","s">>)
IdCard == Str(<<"I","D"," ","A","l"," ","P","o">>)
EmptyText == Str(<<>>)
OcrError == Raise("cannot identify image file")
NlpError == Raise("nlp failed")

\* entities spaCy may report
Entity(text, label) == [text |-> text, label_ |-> label]
EntAnn == Entity(<<"A","n","n"," ","P","o">>, "PERSON")
EntAl == Entity(<<"A","l"," ","P","o">>, "PERSON")
EntBo == Entity(<<"B","o"," ","C","y">>, "PERSON")
EntSolo == Entity(<<"A","l">>, "PERSON")
EntPlace == Entity(<<"R","i","o"," ","L","o","b","o">>, "GPE")
EntityPool == {EntAnn, EntAl, EntBo, EntSolo, EntPlace}

\* the sequences over S of length at most n
RECURSIVE SeqsUpTo(_, _)
SeqsUpTo(S, n) ==
    IF n = 0 THEN {<<>>}
    ELSE LET shorter == SeqsUpTo(S, n - 1)
         IN  shorter \cup {Append(q, x) : q \in shorter, x \in S}

MaxEnts == 2
MaxFeatures == 2

Doc(ents) == [t |-> "doc", ents |-> ents]
AllDocs == {Doc(ents) : ents \in SeqsUpTo(EntityPool, MaxEnts)}

\* parcels of the registry
FieldsA == [owner |-> Str(<<"A","L"," ","P","O">>), saddno |-> Str(<<"1","2">>), saddstr |-> Str(<<"O","a","k">>),
            saddsttyp |-> Str(<<"S","T">>), scity |-> Str(<<"R","I","O">>), szip5 |-> Str(<<"7","5","2","0","1">>),
            address |-> Str(<<"1","2"," ","O","A","K"," ","S","T">>), szip |-> Str(<<"7","5","2","0","1">>),
            parval |-> Num(100), landval |-> Num(40), improvval |-> Num(60)]
FieldsB == [owner |-> Str(<<"B","O"," ","C","Y">>), saddno |-> Str(<<"1","2">>), saddstr |-> Str(<<"E","L","M">>),
            saddsttyp |-> Str(<<"R","D">>), scity |-> Str(<<"R","I","O">>), szip5 |-> None,
            address |-> Str(<<"1","2"," ","E","L","M"," ","R","D">>), parval |-> Num(7)]
FieldsC == [saddno |-> Str(<<"1","2">>), saddstr |-> Str(<<"O","A","K">>), scity |-> Str(<<>>),
            szip5 |-> Str(<<"7","5","2","0","1">>), szip |-> None]
\* owner taken from the base field
FeatureA == [properties |-> [fields |-> FieldsA]]
\* owner taken from the first enhanced-ownership entry
FeatureB == [properties |-> [fields |-> FieldsB,
                             enhanced_ownership |-> << [eo_owner |-> Str(<<"A","L"," ","P","O">>)] >>]]
\* first enhanced entry has no eo_owner, the second has; no base owner
FeatureC == [properties |-> [fields |-> FieldsC,
                             enhanced_ownership |-> << [eo_share |-> Num(1)],
                                                       [eo_owner |-> Str(<<"A","L"," ","P","O">>)] >>]]
\* first enhanced entry has eo_owner: null
FeatureD == [properties |-> [fields |-> FieldsA,
                             enhanced_ownership |-> << [eo_owner |-> None] >>]]
\* a numeric owner
FeatureE == [properties |-> [fields |-> [FieldsA EXCEPT !.owner = Num(7)]]]
\* a numeric zip code
FeatureF == [properties |-> [fields |-> [FieldsA EXCEPT !.szip5 = Num(75201)]]]
\* a feature without properties
FeatureG == [id |-> Num(1)]
FeaturePool == {FeatureA, FeatureB, FeatureC, FeatureD, FeatureE, FeatureF, FeatureG}

Response(status, json) == [t |-> "response", status_code |-> status, json |-> json]
Json(data) == [t |-> "json", data |-> data]
Found(features) == Response(200, Json([parcels |-> [features |-> features]]))
RegistryErrors ==
    { Raise("connection refused"),
      Response(503, Json(<<>>)),
      Response(404, Json([parcels |-> [features |-> <<FeatureA>>]])),
      Response(200, Raise("Expecting value")),
      Response(200, Json(<<>>)),
      Response(200, Json([parcels |-> <<>>])) }
AllRegistry ==
    RegistryErrors \cup {Found(fs) : fs \in SeqsUpTo(FeaturePool, MaxFeatures)}

\* An environment: the requests in flight and, per collaborator call, the set
\* of answers it may give.
Env(requests, deed_texts, id_texts, deed_docs, id_docs, registry) ==
    [requests |-> requests, deed_texts |-> deed_texts, id_texts |-> id_texts,
     deed_docs |-> deed_docs, id_docs |-> id_docs, registry |-> registry]

FewDocs == {Doc(<<>>), Doc(<<EntAl>>)}

\* one request: every candidate list from the deed, every list from the id,
\* every registry answer, every text, each against a few of the others
SingleEnvs ==
    { Env({"r1"}, {DeedFull}, {IdCard}, AllDocs, FewDocs \cup {Doc(<<EntBo>>)},
          {Found(<<FeatureA>>), Found(<<FeatureB>>)}),
      Env({"r1"}, {DeedFull}, {IdCard}, FewDocs \cup {Doc(<<EntBo>>)}, AllDocs,
          {Found(<<FeatureA>>), Found(<<FeatureB>>)}),
      Env({"r1"}, {DeedFull, DeedTwoTokens}, {IdCard}, FewDocs, FewDocs, AllRegistry),
      Env({"r1"}, {DeedFull, DeedNoAddress, DeedTwoTokens, DeedThreeTokens, OcrError},
          {IdCard, EmptyText, OcrError}, FewDocs \cup {NlpError}, FewDocs \cup {NlpError},
          RegistryErrors \cup {Found(<<FeatureA>>), Found(<<FeatureC>>)}) }

\* two requests in flight
PairEnvs ==
    { Env({"r1", "r2"}, {DeedFull, DeedNoAddress}, {IdCard},
          {Doc(<<EntAl>>), Doc(<<EntBo>>)}, FewDocs,
          {Found(<<FeatureA>>), Found(<<FeatureA, FeatureB>>),
           Found(<<FeatureB, FeatureA>>), Response(503, Json(<<>>))}),
      Env({"r1", "r2"}, {DeedFull}, {IdCard}, {Doc(<<EntBo>>)}, {Doc(<<EntAl>>)},
          {Found(<<first>> \o more) :
              first \in {FeatureA, FeatureB, FeatureC, FeatureD},
              more \in SeqsUpTo({FeatureA, FeatureE}, MaxFeatures - 1)}) }

---------------------------------------------------------------------------
(* verify(): one action per stage, r the request *)

Bool(b) == [t |-> "bool", v |-> b]

\* JSONResponse(status_code, content) of a failure
Error(status, msg) ==
    [status_code |-> status, content |-> [match |-> FALSE, error |-> msg]]

InitRequests(E) ==
    /\ env \in E
    /\ pc = [r \in Requests |-> IF r \in env.requests THEN "extract_text" ELSE "idle"]
    /\ deed_text = [r \in Requests |-> Unset]
    /\ id_text = [r \in Requests |-> Unset]
    /\ deed_doc = [r \in Requests |-> Unset]
    /\ id_doc = [r \in Requests |-> Unset]
    /\ deed_owner_names = [r \in Requests |-> <<>>]
    /\ id_owner_names = [r \in Requests |-> <<>>]
    /\ extracted_address = [r \in Requests |-> Unset]
    /\ response = [r \in Requests |-> Unset]
    /\ props = [r \in Requests |-> Unset]
    /\ regrid_owner = [r \in Requests |-> Unset]
    /\ matched_id_name = [r \in Requests |-> Unset]
    /\ matched_deed_name = [r \in Requests |-> Unset]
    /\ deed_address_match = [r \in Requests |-> Unset]
    /\ result = [r \in Requests |-> Unset]
    /\ registry_calls = [r \in Requests |-> 0]
    /\ stages = [r \in Requests |-> <<>>]

Init == InitRequests(SingleEnvs) /\ call = Unset /\ ret = Unset

InitPair == InitRequests(PairEnvs) /\ call = Unset /\ ret = Unset

\* return a JSONResponse: the request is over
Return(r, resp) ==
    /\ result' = [result EXCEPT ![r] = resp]
    /\ pc' = [pc EXCEPT ![r] = "done"]

Goto(r, stage) ==
    /\ pc' = [pc EXCEPT ![r] = stage]
    /\ result' = result

Ran(r, stage) == stages' = [stages EXCEPT ![r] = Append(@, stage)]

\* deed_text = extract_text_from_image(...); id_text = extract_text_from_image(...)
ExtractText(r) ==
    /\ pc[r] = "extract_text"
    /\ \E d \in env.deed_texts, i \in env.id_texts :
          /\ deed_text' = [deed_text EXCEPT ![r] = d]
          /\ IF d.t = "raise"
             THEN id_text' = id_text /\ Return(r, Error(500, d.msg))
             ELSE /\ id_text' = [id_text EXCEPT ![r] = i]
                  /\ IF i.t = "raise"
                     THEN Return(r, Error(500, i.msg))
                     ELSE Goto(r, "extract_entities")
    /\ Ran(r, "text_extraction")
    /\ UNCHANGED <<env, deed_doc, id_doc, deed_owner_names, id_owner_names,
                   extracted_address, response, props, regrid_owner,
                   matched_id_name, matched_deed_name, deed_address_match,
                   registry_calls, call, ret>>

\* deed_owner_names = extract_owners_with_spacy(deed_text); the same for the id
ExtractEntities(r) ==
    /\ pc[r] = "extract_entities"
    /\ \E d \in env.deed_docs, i \in env.id_docs :
          /\ deed_doc' = [deed_doc EXCEPT ![r] = d]
          /\ IF d.t = "raise"
             THEN /\ id_doc' = id_doc
                  /\ UNCHANGED <<deed_owner_names, id_owner_names>>
                  /\ Return(r, Error(500, d.msg))
             ELSE /\ deed_owner_names' =
                        [deed_owner_names EXCEPT ![r] = extract_owners_with_spacy(d.ents)]
                  /\ id_doc' = [id_doc EXCEPT ![r] = i]
                  /\ IF i.t = "raise"
                     THEN /\ UNCHANGED id_owner_names
                          /\ Return(r, Error(500, i.msg))
                     ELSE /\ id_owner_names' =
                                [id_owner_names EXCEPT ![r] = extract_owners_with_spacy(i.ents)]
                          /\ Goto(r, "locate_address")
    /\ Ran(r, "entity_extraction")
    /\ UNCHANGED <<env, deed_text, id_text, extracted_address, response, props,
                   regrid_owner, matched_id_name, matched_deed_name,
                   deed_address_match, registry_calls, call, ret>>

\* a variant that goes on to the registry without an address
LocateAddressNoReturn(r) ==
    /\ pc[r] = "locate_address"
    /\ LET text == upper(deed_text[r].v)
           address_match == re_search(text)
       IN  extracted_address' = [extracted_address EXCEPT
               ![r] = IF address_match = None THEN Str(<<>>)
                      ELSE Str(group0(text, address_match))]
    /\ Goto(r, "registry_lookup")
    /\ Ran(r, "address_location")
    /\ UNCHANGED <<env, deed_text, id_text, deed_doc, id_doc, deed_owner_names,
                   id_owner_names, response, props, regrid_owner, matched_id_name,
                   matched_deed_name, deed_address_match, registry_calls, call, ret>>

\* address_match = re.search(pattern, deed_text.upper())
LocateAddress(r) ==
    /\ pc[r] = "locate_address"
    /\ LET text == upper(deed_text[r].v)
           address_match == re_search(text)
       IN  IF address_match = None
           THEN /\ Return(r, Error(400, "Address not found in deed text"))
                /\ UNCHANGED extracted_address
           ELSE /\ extracted_address' =
                      [extracted_address EXCEPT ![r] = Str(group0(text, address_match))]
                /\ Goto(r, "registry_lookup")
    /\ Ran(r, "address_location")
    /\ UNCHANGED <<env, deed_text, id_text, deed_doc, id_doc, deed_owner_names,
                   id_owner_names, response, props, regrid_owner, matched_id_name,
                   matched_deed_name, deed_address_match, registry_calls, call, ret>>

\* a variant that takes only a 5xx status for a failure
RegistryLookupServerErrors(r) ==
    /\ pc[r] = "registry_lookup"
    /\ registry_calls' = [registry_calls EXCEPT ![r] = @ + 1]
    /\ \E answer \in env.registry :
          /\ response' = [response EXCEPT ![r] = answer]
          /\ IF answer.t = "raise"
             THEN Return(r, Error(500, answer.msg))
             ELSE IF answer.status_code >= 500
                  THEN Return(r, Error(500, "Failed to fetch parcel from Regrid"))
                  ELSE Goto(r, "read_parcel")
    /\ Ran(r, "registry_lookup")
    /\ UNCHANGED <<env, deed_text, id_text, deed_doc, id_doc, deed_owner_names,
                   id_owner_names, extracted_address, props, regrid_owner,
                   matched_id_name, matched_deed_name, deed_address_match, call, ret>>

\* a variant that calls the registry a second time after a failed call
RegistryLookupRetry(r) ==
    /\ pc[r] = "registry_lookup"
    /\ registry_calls' = [registry_calls EXCEPT ![r] = @ + 1]
    /\ \E answer \in env.registry :
          /\ response' = [response EXCEPT ![r] = answer]
          /\ IF answer.t = "raise"
             THEN Return(r, Error(500, answer.msg))
             ELSE IF answer.status_code # 200
                  THEN IF registry_calls[r] = 0
                       THEN Goto(r, "registry_lookup")
                       ELSE Return(r, Error(500, "Failed to fetch parcel from Regrid"))
                  ELSE Goto(r, "read_parcel")
    /\ stages' = IF registry_calls[r] = 0 THEN [stages EXCEPT ![r] = Append(@, "registry_lookup")]
                 ELSE stages
    /\ UNCHANGED <<env, deed_text, id_text, deed_doc, id_doc, deed_owner_names,
                   id_owner_names, extracted_address, props, regrid_owner,
                   matched_id_name, matched_deed_name, deed_address_match, call, ret>>

\* response = requests.get(url, headers=headers, params=params)
RegistryLookup(r) ==
    /\ pc[r] = "registry_lookup"
    /\ registry_calls' = [registry_calls EXCEPT ![r] = @ + 1]
    /\ \E answer \in env.registry :
          /\ response' = [response EXCEPT ![r] = answer]
          /\ IF answer.t = "raise"
             THEN Return(r, Error(500, answer.msg))
             ELSE IF answer.status_code # 200
                  THEN Return(r, Error(500, "Failed to fetch parcel from Regrid"))
                  ELSE Goto(r, "read_parcel")
    /\ Ran(r, "registry_lookup")
    /\ UNCHANGED <<env, deed_text, id_text, deed_doc, id_doc, deed_owner_names,
                   id_owner_names, extracted_address, props, regrid_owner,
                   matched_id_name, matched_deed_name, deed_address_match, call, ret>>

\* data = response.json() ... regrid_address = ...
ReadParcel(r) ==
    /\ pc[r] = "read_parcel"
    /\ LET json == response[r].json
           features == Get(Get(json.data, "parcels", <<>>), "features", <<>>)
       IN  IF json.t = "raise"
           THEN /\ Return(r, Error(500, json.msg))
                /\ UNCHANGED <<props, regrid_owner>>
           ELSE IF features = <<>>
           THEN /\ Return(r, Error(404, "No parcel found for the given address"))
                /\ UNCHANGED <<props, regrid_owner>>
           ELSE /\ props' = [props EXCEPT ![r] = first_properties(features)]
                /\ regrid_owner' =
                      [regrid_owner EXCEPT ![r] = owner_of(first_properties(features))]
                /\ Goto(r, "match_names")
    /\ Ran(r, "parcel_record")
    /\ UNCHANGED <<env, deed_text, id_text, deed_doc, id_doc, deed_owner_names,
                   id_owner_names, extracted_address, response, matched_id_name,
                   matched_deed_name, deed_address_match, registry_calls, call, ret>>

\* matched_id_name = next(...); matched_deed_name = next(...)
MatchNames(r) ==
    /\ pc[r] = "match_names"
    /\ IF \/ name_match_raises(id_owner_names[r], regrid_owner[r])
          \/ name_match_raises(deed_owner_names[r], regrid_owner[r])
       THEN /\ Return(r, Error(500, "'int' object has no attribute 'strip'"))
            /\ UNCHANGED <<matched_id_name, matched_deed_name>>
       ELSE /\ matched_id_name' = [matched_id_name EXCEPT
                    ![r] = matched_name(id_owner_names[r], regrid_owner[r])]
            /\ matched_deed_name' = [matched_deed_name EXCEPT
                    ![r] = matched_name(deed_owner_names[r], regrid_owner[r])]
            /\ Goto(r, "reconcile_address")
    /\ Ran(r, "name_matching")
    /\ UNCHANGED <<env, deed_text, id_text, deed_doc, id_doc, deed_owner_names,
                   id_owner_names, extracted_address, response, props, regrid_owner,
                   deed_address_match, registry_calls, call, ret>>

\* address_tokens = [...]; deed_address_match = len(matched_tokens) >= 3
ReconcileAddress(r) ==
    /\ pc[r] = "reconcile_address"
    /\ LET tokens == address_tokens(Get(props[r], "fields", <<>>))
       IN  IF reconcile_raises(tokens)
           THEN /\ Return(r, Error(500, "'int' object has no attribute 'upper'"))
                /\ UNCHANGED deed_address_match
           ELSE /\ deed_address_match' = [deed_address_match EXCEPT
                        ![r] = Bool(address_matches(tokens, upper(deed_text[r].v)))]
                /\ Goto(r, "fuse")
    /\ Ran(r, "address_reconciliation")
    /\ UNCHANGED <<env, deed_text, id_text, deed_doc, id_doc, deed_owner_names,
                   id_owner_names, extracted_address, response, props, regrid_owner,
                   matched_id_name, matched_deed_name, registry_calls, call, ret>>

\* the content of the JSONResponse of a completed verification
match_content(r) ==
    LET fields == Get(props[r], "fields", <<>>)
    IN  [match |-> match_result_of(deed_address_match[r].v, matched_deed_name[r],
                                   matched_id_name[r]),
         deed_address_match |-> deed_address_match[r].v,
         extracted_deed_names |-> deed_owner_names[r],
         extracted_id_names |-> id_owner_names[r],
         matched_name_from_deed |-> matched_deed_name[r],
         matched_name_from_id |-> matched_id_name[r],
         owner_name_match_from_deed |-> matched_deed_name[r] # None,
         owner_name_match_from_id |-> matched_id_name[r] # None,
         regrid_owner |-> regrid_owner[r],
         regrid_address |-> regrid_address_of(fields),
         valuation |-> valuation_of(fields)]

\* valuation = ...; match_result = ...; return JSONResponse(content={...})
Fuse(r) ==
    /\ pc[r] = "fuse"
    /\ Return(r, [status_code |-> 200, content |-> match_content(r)])
    /\ Ran(r, "fusion")
    /\ UNCHANGED <<env, deed_text, id_text, deed_doc, id_doc, deed_owner_names,
                   id_owner_names, extracted_address, response, props, regrid_owner,
                   matched_id_name, matched_deed_name, deed_address_match,
                   registry_calls, call, ret>>

Next ==
    \E r \in Requests :
        \/ ExtractText(r)
        \/ ExtractEntities(r)
        \/ LocateAddress(r)
        \/ RegistryLookup(r)
        \/ ReadParcel(r)
        \/ MatchNames(r)
        \/ ReconcileAddress(r)
        \/ Fuse(r)

Spec == Init /\ [][Next]_vars

SpecPair == InitPair /\ [][Next]_vars

---------------------------------------------------------------------------
(* Direct applications of the helpers: call holds the arguments, ret the    *)
(* value returned                                                          *)

IdleEnv == Env({}, {}, {}, {}, {}, {})

\* the words of s joined by single spaces
RECURSIVE Join(_)
Join(words) ==
    IF words = <<>> THEN <<>>
    ELSE IF Len(words) = 1 THEN Head(words)
    ELSE Head(words) \o <<" ">> \o Join(Tail(words))

MaxWords == 3

NameWords == {<<"J","O","H","N">>, <<"A">>, <<"S","M","I","T","H">>}
OcrNames ==
    {Str(Join(ws)) : ws \in SeqsUpTo(NameWords, MaxWords) \ {<<>>}}
    \cup {None, Str(<<>>), Str(<<" ">>), Str(<<" ","j","o","h","n"," ","a"," ","s","m","i","t","h"," ">>), Str(<<"R","O","B","E","R","T"," ","J","O","N","E","S">>)}
OwnerNames ==
    {None, Str(<<>>), Str(<<" "," ">>), Str(<<"S","M","I","T","H"," ","J","O","H","N"," ","A">>), Str(<<"J","O","H","N"," ","A"," ","S","M","I","T","H">>),
     Str(<<"j","o","h","n"," ","s","m","i","t","h">>), Str(<<" ","S","m","i","t","h"," ">>), Str(<<"R","O","B","E","R","T"," ","J","O","N","E","S">>), Str(<<"J","A","N","E"," ","A","N","N"," ","S","C","O","T","T">>),
     Str(<<"S"," ","J"," ","A">>)}
Thresholds == {DefaultThreshold, 67}

InitName ==
    /\ InitRequests({IdleEnv})
    /\ call \in {[fn |-> "is_name_match", ocr_name |-> a, regrid_name |-> b,
                  threshold |-> th] : a \in OcrNames, b \in OwnerNames, th \in Thresholds}
    /\ ret = Unset

ApplyNameMatch ==
    /\ call.fn = "is_name_match"
    /\ ret = Unset
    /\ ret' = Bool(is_name_match(call.ocr_name, call.regrid_name, call.threshold))
    /\ UNCHANGED <<env, reqvars, call>>

NextName == ApplyNameMatch

SpecName == InitName /\ [][NextName]_vars

\* registry fields for the reconciler: any subset of the five keys, each
\* present key with an empty value, null, a token the deed holds (as the
\* registry spells it or in lower case) or a token the deed does not hold
TokenKeys == {"saddno", "saddstr", "saddsttyp", "scity", "szip5"}
TokenKinds == {"empty", "null", "held", "lower", "other"}
HeldToken == [saddno |-> <<"1","2">>, saddstr |-> <<"O","A","K">>, saddsttyp |-> <<"S","T">>,
              scity |-> <<"R","I","O">>, szip5 |-> <<"7","5","2","0","1">>]
LowerToken == [saddno |-> <<"1","2">>, saddstr |-> <<"o","a","k">>, saddsttyp |-> <<"s","t">>,
               scity |-> <<"r","i","o">>, szip5 |-> <<"7","5","2","0","1">>]
OtherToken == [saddno |-> <<"9","9">>, saddstr |-> <<"E","L","M">>, saddsttyp |-> <<"R","D">>,
               scity |-> <<"L","I","M","A">>, szip5 |-> <<"1","0","0","0","1">>]
TokenValue(key, kind) ==
    CASE kind = "empty" -> Str(<<>>)
      [] kind = "null" -> None
      [] kind = "held" -> Str(HeldToken[key])
      [] kind = "lower" -> Str(LowerToken[key])
      [] OTHER -> Str(OtherToken[key])
TokenFields ==
    UNION { { [key \in keys |-> TokenValue(key, kinds[key])] :
              kinds \in [keys -> TokenKinds] } : keys \in SUBSET TokenKeys }

InitReconcile ==
    /\ InitRequests({IdleEnv})
    /\ call \in {[fn |-> "reconcile", fields |-> f, deed_text |-> DeedFull.v] :
                    f \in TokenFields}
    /\ ret = Unset

ApplyReconcile ==
    /\ call.fn = "reconcile"
    /\ ret = Unset
    /\ ret' = Bool(address_matches(address_tokens(call.fields), upper(call.deed_text)))
    /\ UNCHANGED <<env, reqvars, call>>

NextReconcile == ApplyReconcile

SpecReconcile == InitReconcile /\ [][NextReconcile]_vars

\* deed texts for the locator: up to MaxDeedWords words, a blank or a comma
\* and a blank between two of them
MaxDeedWords == 4

LocatorWords == {<<"1","2">>, <<"3","4","5">>, <<"O","A","K">>, <<"S","T">>, <<"R","d">>}
Separators == {<<" ">>, <<",", " ">>}

RECURSIVE TextsOf(_)
TextsOf(n) ==
    IF n = 1 THEN LocatorWords
    ELSE {t \o sep \o w : t \in TextsOf(n - 1), sep \in Separators, w \in LocatorWords}

LocatorTexts == UNION {TextsOf(n) : n \in 1..MaxDeedWords}

InitLocate ==
    /\ InitRequests({IdleEnv})
    /\ call \in {[fn |-> "locate", deed_text |-> t] : t \in LocatorTexts}
    /\ ret = Unset

\* the query of the registry lookup: group(0) of the search, None without a match
ApplyLocate ==
    /\ call.fn = "locate"
    /\ ret = Unset
    /\ LET text == upper(call.deed_text)
           address_match == re_search(text)
       IN  ret' = IF address_match = None THEN None
                  ELSE Str(group0(text, address_match))
    /\ UNCHANGED <<env, reqvars, call>>

NextLocate == ApplyLocate

SpecLocate == InitLocate /\ [][NextLocate]_vars

---------------------------------------------------------------------------
(* Properties *)

Done(r) == pc[r] = "done"
\* the request ended with a MatchResult
Succeeded(r) == Done(r) /\ "error" \notin DOMAIN result[r].content
\* the request ended with a failure
Failed(r) == Done(r) /\ "error" \in DOMAIN result[r].content
HasStage(r, stage) == \E i \in DOMAIN stages[r] : stages[r][i] = stage

AllIn(t, lo, hi, S) == \A p \in lo..hi : t[p] \in S

\* t[i..j] is a house number of 2 to 6 digits, whitespace, one or more
\* characters of address tokens, and a street type of the vocabulary
IsAddress(t, i, j) ==
    \E d \in 2..6 :
        /\ i + d - 1 <= j
        /\ AllIn(t, i, i + d - 1, Digits)
        /\ \E w \in 1..(j - i) :
              /\ i + d + w - 1 <= j
              /\ AllIn(t, i + d, i + d + w - 1, Whitespace)
              /\ \E ty \in DOMAIN StreetTypes :
                    LET n == Len(StreetTypes[ty])
                        k == (j - i + 1) - d - w - n
                    IN  /\ k >= 1
                        /\ SubSeq(t, j - n + 1, j) = StreetTypes[ty]
                        /\ AllIn(t, i + d + w, i + d + w + k - 1, AddressChars)

AddressStarts(t) ==
    {i \in 1..Len(t) : t[i] \in Digits /\ \E j \in i..Len(t) : IsAddress(t, i, j)}

HasAddress(t) == AddressStarts(t) # {}

AddressNotFound == Error(400, "Address not found in deed text")
RegistryUnavailable == Error(500, "Failed to fetch parcel from Regrid")
ParcelNotFound == Error(404, "No parcel found for the given address")

\* C1: every MatchResult has match = deed_address_match and (name match from
\* the deed or name match from the id).
C1_Verdict ==
    \A r \in Requests : Succeeded(r) =>
        LET c == result[r].content
        IN  /\ c.match = (c.deed_address_match /\
                          (c.owner_name_match_from_deed \/ c.owner_name_match_from_id))
            /\ c.deed_address_match = deed_address_match[r].v
            /\ c.owner_name_match_from_deed = (matched_deed_name[r] # None)
            /\ c.owner_name_match_from_id = (matched_id_name[r] # None)

\* the address matches and only the id name does: the verdict is true
C1_Witness ==
    \E r \in Requests :
        /\ Succeeded(r)
        /\ result[r].content.deed_address_match
        /\ ~result[r].content.owner_name_match_from_deed
        /\ result[r].content.owner_name_match_from_id
        /\ result[r].content.match

\* C2: when the upper-cased deed text that the address stage scanned holds no
\* address, the request ends with AddressNotFound, verdict false, and
\* requests.get was never called.
C2_NoAddressNoLookup ==
    \A r \in Requests :
        (HasStage(r, "address_location") /\ ~HasAddress(upper(deed_text[r].v))) =>
            /\ Done(r)
            /\ result[r] = AddressNotFound
            /\ result[r].content.match = FALSE
            /\ registry_calls[r] = 0
            /\ ~HasStage(r, "registry_lookup")

C2_Witness ==
    \E r \in Requests :
        /\ HasStage(r, "address_location")
        /\ ~HasAddress(upper(deed_text[r].v))
        /\ result[r] = AddressNotFound

\* the five registry keys whose token is a non-empty string that occurs,
\* upper-cased, in the upper-cased deed text
PresentKeys(fields, text) ==
    {key \in TokenKeys :
        /\ key \in DOMAIN fields
        /\ fields[key].t = "str"
        /\ fields[key].v # <<>>
        /\ Contains(upper(fields[key].v), upper(text))}

\* C3: the address matches iff at least 3 of the 5 registry tokens are
\* present; empty, null and missing tokens never count.
C3_ThreeOfFive ==
    ret # Unset =>
        ret.v = (Cardinality(PresentKeys(call.fields, call.deed_text)) >= 3)

\* exactly three tokens present: the address matches
C3_Witness ==
    /\ ret # Unset
    /\ Cardinality(PresentKeys(call.fields, call.deed_text)) = 3
    /\ Cardinality(DOMAIN call.fields) = 5
    /\ ret.v = TRUE

\* what made the request fail, read from what the collaborators answered
BadStatus(r) == response[r].t = "response" /\ response[r].status_code # 200
GoodStatus(r) == response[r].t = "response" /\ response[r].status_code = 200
FeaturesOf(r) == Get(Get(response[r].json.data, "parcels", <<>>), "features", <<>>)
NoFeatures(r) ==
    /\ GoodStatus(r)
    /\ response[r].json.t = "json"
    /\ HasStage(r, "parcel_record")
    /\ FeaturesOf(r) = <<>>
NoAddressFound(r) ==
    HasStage(r, "address_location") /\ extracted_address[r] = Unset
\* an exception was raised: str(e), or "" when none was
RaisedMessage(r) ==
    CASE deed_text[r].t = "raise" -> deed_text[r].msg
      [] id_text[r].t = "raise" -> id_text[r].msg
      [] deed_doc[r].t = "raise" -> deed_doc[r].msg
      [] id_doc[r].t = "raise" -> id_doc[r].msg
      [] response[r].t = "raise" -> response[r].msg
      [] GoodStatus(r) /\ HasStage(r, "parcel_record") /\ response[r].json.t = "raise" ->
            response[r].json.msg
      [] HasStage(r, "name_matching") /\ matched_id_name[r] = Unset ->
            "'int' object has no attribute 'strip'"
      [] HasStage(r, "address_reconciliation") /\ deed_address_match[r] = Unset ->
            "'int' object has no attribute 'upper'"
      [] OTHER -> ""

MatchResultKeys ==
    {"match", "deed_address_match", "extracted_deed_names", "extracted_id_names",
     "matched_name_from_deed", "matched_name_from_id", "owner_name_match_from_deed",
     "owner_name_match_from_id", "regrid_owner", "regrid_address", "valuation"}

\* C4: a failure is returned as match false with an error message and nothing
\* else; a registry status other than 200 gives RegistryUnavailable, a 200
\* with no features ParcelNotFound, no address AddressNotFound, an exception
\* UnexpectedFailure (500 with str(e)); a verdict of true comes only with a
\* complete MatchResult.
C4_FailureTaxonomy ==
    \A r \in Requests : Done(r) =>
        /\ Failed(r) => /\ DOMAIN result[r].content = {"match", "error"}
                        /\ result[r].content.match = FALSE
                        /\ result[r].status_code \in {400, 404, 500}
        /\ Succeeded(r) => /\ DOMAIN result[r].content = MatchResultKeys
                           /\ result[r].status_code = 200
                           /\ HasStage(r, "fusion")
        /\ BadStatus(r) => result[r] = RegistryUnavailable
        /\ NoFeatures(r) => result[r] = ParcelNotFound
        /\ NoAddressFound(r) => result[r] = AddressNotFound
        /\ RaisedMessage(r) # "" =>
              /\ result[r] = Error(500, RaisedMessage(r))
              /\ result[r] \notin {AddressNotFound, RegistryUnavailable, ParcelNotFound}
        /\ Failed(r) => \/ BadStatus(r) \/ NoFeatures(r) \/ NoAddressFound(r)
                        \/ RaisedMessage(r) # ""

\* the registry answered 404 with a parcel in the body: RegistryUnavailable
C4_Witness ==
    \E r \in Requests :
        /\ Done(r)
        /\ response[r].t = "response"
        /\ response[r].status_code = 404
        /\ FeaturesOf(r) # <<>>
        /\ result[r] = RegistryUnavailable

\* s without its leading and trailing whitespace, upper-cased
TrimmedUpper(s) ==
    LET inked == {i \in DOMAIN s : s[i] \notin Whitespace}
    IN  IF inked = {} THEN <<>>
        ELSE LET first == CHOOSE i \in inked : \A j \in inked : i <= j
                 last == CHOOSE i \in inked : \A j \in inked : i >= j
             IN  [i \in 1..(last - first + 1) |-> upper_char(s[first + i - 1])]

\* the characters of s that start a word, in their order in s
RECURSIVE FirstLetters(_, _)
FirstLetters(s, i) ==
    IF i > Len(s) THEN <<>>
    ELSE IF s[i] \notin Whitespace /\ (i = 1 \/ s[i - 1] \in Whitespace)
         THEN <<s[i]>> \o FirstLetters(s, i + 1)
         ELSE FirstLetters(s, i + 1)

Absent(x) == x = None \/ x = Str(<<>>)

JohnASmith == Str(<<"J","O","H","N"," ","A"," ","S","M","I","T","H">>)
SmithJohnA == Str(<<"S","M","I","T","H"," ","J","O","H","N"," ","A">>)
RobertJones == Str(<<"R","O","B","E","R","T"," ","J","O","N","E","S">>)

\* C5: is_name_match is false when an input is empty or absent; otherwise, on
\* the trimmed upper-cased strings, it is true when the partial ratio reaches
\* the threshold, and below the threshold it is true iff the initials are the
\* same string.  JOHN A SMITH and SMITH JOHN A do not match at 70.
C5_NameMatcher ==
    ret # Unset =>
        /\ ret.v =
             IF Absent(call.ocr_name) \/ Absent(call.regrid_name) THEN FALSE
             ELSE LET a == TrimmedUpper(call.ocr_name.v)
                      b == TrimmedUpper(call.regrid_name.v)
                  IN  IF partial_ratio(a, b) >= call.threshold THEN TRUE
                      ELSE FirstLetters(a, 1) = FirstLetters(b, 1)
        /\ (call.ocr_name = JohnASmith /\ call.regrid_name = SmithJohnA
            /\ call.threshold = 70) => ret.v = FALSE
        /\ (call.ocr_name = RobertJones /\ call.regrid_name = RobertJones) => ret.v = TRUE

\* the score is below the threshold and the initials differ only in order
C5_Witness ==
    /\ ret # Unset
    /\ call.ocr_name = JohnASmith
    /\ call.regrid_name = SmithJohnA
    /\ call.threshold = 70
    /\ partial_ratio(JohnASmith.v, SmithJohnA.v) < 70
    /\ ret.v = FALSE

Matches(name, owner) == is_name_match(Str(name), owner, DefaultThreshold)

\* chosen is the first entry of names that matches owner, None when none does
FirstMatching(names, owner, chosen) ==
    IF \E i \in DOMAIN names : Matches(names[i], owner)
    THEN \E i \in DOMAIN names :
            /\ Matches(names[i], owner)
            /\ \A j \in 1..(i - 1) : ~Matches(names[j], owner)
            /\ chosen = Str(names[i])
    ELSE chosen = None

\* C6: the matched name of each list is its first entry that matches the
\* registry owner, None iff no entry matches; the flag is true iff the matched
\* name is not None; an empty list gives a false flag and no exception.
C6_FirstCandidate ==
    \A r \in Requests :
        /\ pc[r] = "reconcile_address" =>
              /\ FirstMatching(id_owner_names[r], regrid_owner[r], matched_id_name[r])
              /\ FirstMatching(deed_owner_names[r], regrid_owner[r], matched_deed_name[r])
        /\ (HasStage(r, "name_matching") /\ id_owner_names[r] = <<>>
            /\ deed_owner_names[r] = <<>>) =>
              /\ matched_id_name[r] = None
              /\ matched_deed_name[r] = None
              /\ RaisedMessage(r) # "'int' object has no attribute 'strip'"
        /\ Succeeded(r) =>
              LET c == result[r].content
              IN  /\ c.matched_name_from_id = matched_id_name[r]
                  /\ c.matched_name_from_deed = matched_deed_name[r]
                  /\ c.owner_name_match_from_id = (c.matched_name_from_id # None)
                  /\ c.owner_name_match_from_deed = (c.matched_name_from_deed # None)
                  /\ id_owner_names[r] = <<>> => ~c.owner_name_match_from_id
                  /\ deed_owner_names[r] = <<>> => ~c.owner_name_match_from_deed

\* two entries match, the second exactly: the first is the one chosen
C6_Witness ==
    \E r \in Requests :
        /\ Succeeded(r)
        /\ deed_owner_names[r] = <<<<"A","N","N"," ","P","O">>, <<"A","L"," ","P","O">>>>
        /\ regrid_owner[r] = Str(<<"A","L"," ","P","O">>)
        /\ result[r].content.matched_name_from_deed = Str(<<"A","N","N"," ","P","O">>)
        /\ id_owner_names[r] = <<>>
        /\ ~result[r].content.owner_name_match_from_id

\* what request r was given: the texts read from its two images and what
\* spaCy and the registry answered it
InputsOf(r) == <<deed_text[r], id_text[r], deed_doc[r], id_doc[r], response[r]>>

\* C7: two requests that were given the same images and the same collaborator
\* answers return the same response, however their stages interleave.
C7_Idempotent ==
    \A r1, r2 \in Requests :
        (Done(r1) /\ Done(r2) /\ InputsOf(r1) = InputsOf(r2)) => result[r1] = result[r2]

\* two completed verifications of the same inputs
C7_Witness ==
    /\ Succeeded("r1")
    /\ Succeeded("r2")
    /\ InputsOf("r1") = InputsOf("r2")
    /\ deed_owner_names["r1"] # <<>>
    /\ result["r1"] = result["r2"]

StageOrder ==
    <<"text_extraction", "entity_extraction", "address_location", "registry_lookup",
      "parcel_record", "name_matching", "address_reconciliation", "fusion">>

IsPrefix(p, q) == Len(p) <= Len(q) /\ SubSeq(q, 1, Len(p)) = p

OrderedStages ==
    \A r \in Requests :
        /\ IsPrefix(stages[r], StageOrder)
        /\ registry_calls[r] <= 1
        /\ registry_calls[r] = Cardinality({i \in DOMAIN stages[r] :
                                                stages[r][i] = "registry_lookup"})
        /\ (matched_id_name[r] # Unset \/ matched_deed_name[r] # Unset
            \/ deed_address_match[r] # Unset) => props[r] # Unset
        /\ props[r] # Unset => (GoodStatus(r) /\ FeaturesOf(r) # <<>>)
        /\ Failed(r) => ~HasStage(r, "fusion")

\* a request that has returned executes nothing more
StopsWhenDone ==
    \A r \in Requests :
        Done(r) => /\ pc'[r] = pc[r]
                   /\ stages'[r] = stages[r]
                   /\ registry_calls'[r] = registry_calls[r]
                   /\ result'[r] = result[r]

\* C8: the stages of a request run at most once each, in the fixed order; the
\* registry is called at most once; names and address are compared only
\* once a parcel record was read; after a failure no stage runs.
C8_StageOrder == []OrderedStages /\ [][StopsWhenDone]_vars

\* the registry failed: four stages ran, one registry call, nothing after
C8_Witness ==
    \E r \in Requests :
        /\ result[r] = RegistryUnavailable
        /\ stages[r] = SubSeq(StageOrder, 1, 4)
        /\ registry_calls[r] = 1
        /\ matched_id_name[r] = Unset
        /\ deed_address_match[r] = Unset

\* the earliest address of t: of the addresses that start leftmost, the one
\* that ends first
FirstAddress(t) ==
    LET i == CHOOSE a \in AddressStarts(t) : \A b \in AddressStarts(t) : a <= b
        ends == {j \in i..Len(t) : IsAddress(t, i, j)}
        j == CHOOSE a \in ends : \A b \in ends : a <= b
    IN  SubSeq(t, i, j)

\* C9: the query sent to the registry is the first address of the upper-cased
\* deed text: the leftmost one, not the longest.
C9_FirstAddress ==
    (ret # Unset /\ HasAddress(upper(call.deed_text))) =>
        ret = Str(FirstAddress(upper(call.deed_text)))

\* the registry owner the first feature of the response gives
FirstFeatureOwner(features) ==
    LET feature == features[1]
        properties == IF "properties" \in DOMAIN feature THEN feature.properties ELSE <<>>
        entries == IF "enhanced_ownership" \in DOMAIN properties
                   THEN properties.enhanced_ownership ELSE <<>>
        base == IF "fields" \in DOMAIN properties /\ "owner" \in DOMAIN properties.fields
                THEN properties.fields.owner ELSE Str(<<>>)
    IN  IF entries # <<>> /\ "eo_owner" \in DOMAIN Head(entries)
        THEN Head(entries).eo_owner
        ELSE base

\* C10: the owner used for name matching is that of the first feature: its
\* first enhanced-ownership entry's owner when it has one, else its base
\* owner, else empty; responses with the same first feature give the same
\* MatchResult.
C10_FirstFeature ==
    /\ \A r \in Requests :
          /\ regrid_owner[r] # Unset => regrid_owner[r] = FirstFeatureOwner(FeaturesOf(r))
          /\ Succeeded(r) => result[r].content.regrid_owner = FirstFeatureOwner(FeaturesOf(r))
    /\ \A r1, r2 \in Requests :
          ( /\ Succeeded(r1) /\ Succeeded(r2)
            /\ <<deed_text[r1], id_text[r1], deed_doc[r1], id_doc[r1]>>
                 = <<deed_text[r2], id_text[r2], deed_doc[r2], id_doc[r2]>>
            /\ Head(FeaturesOf(r1)) = Head(FeaturesOf(r2)) )
          => result[r1] = result[r2]

\* the first feature's enhanced owner is used, and a second feature of
\* another owner changes nothing
C10_Witness ==
    /\ Succeeded("r1")
    /\ Succeeded("r2")
    /\ FeaturesOf("r1") = <<FeatureB>>
    /\ FeaturesOf("r2") = <<FeatureB, FeatureE>>
    /\ regrid_owner["r2"] = FeatureB.properties.enhanced_ownership[1].eo_owner
    /\ result["r1"] = result["r2"]

============================================================================
